---- MODULE Spec2Model ----
(***************************************************************************)
(* Model of zwd1208/logging: the size-rotating file handler                *)
(* (filehandler.go) with its callers.  One SizeRotatingFileHandler over    *)
(* one directory; application threads call Log, Run and Close; every       *)
(* Log call that wrote a line launches a rotating() goroutine.  A Logger   *)
(* with its handler list stands in front of the file handler and of two    *)
(* StdHandlers in SpecLogger.                                              *)
(*                                                                         *)
(* Threads carry no local state besides their position in the code, so     *)
(* they are kept as a bag: threads[pc] is the number of threads at pc.     *)
(* Steps that touch nothing another thread can observe before the next     *)
(* step are folded into it (Lock with the Stat that follows it, the        *)
(* deferred Unlock with the last statement, RUnlock with the go).          *)
(***************************************************************************)
EXTENDS Integers, Sequences, FiniteSets

VARIABLES
    argCount,         \* the fileCount argument NewSizeRotatingFileHandler was given
    name,             \* FileHandler.name
    off,              \* FileHandler.off
    filePath,         \* FileHandler.filePath ("" after Close)
    fileFd,           \* FileHandler.fileFd: [open, at] the descriptor and the file it refers to
    log,              \* FileHandler.log: "nil" or "logger" (a log.Logger over fileFd)
    fileCount,        \* SizeRotatingFileHandler.fileCount
    fileSize,         \* SizeRotatingFileHandler.fileSize (threshold, bytes)
    nextSuffix,       \* SizeRotatingFileHandler.nextSuffix
    running,          \* SizeRotatingFileHandler.running
    rotatingRun,      \* SizeRotatingFileHandler.rotatingRun
    rotatingInterval, \* SizeRotatingFileHandler.rotatingInterval (ms)
    fileLock,         \* SizeRotatingFileHandler.fileLock: [readers, writer]
    active,           \* the file at filePath
    backups,          \* backups[n]: the file at filePath.n
    threads,          \* bag of threads by position in the code
    written,          \* number of lines Printf has been asked to write (the last line's id)
    lost,             \* ids of lines Printf wrote to a closed descriptor
    evicted,          \* ids of the lines that were in a backup a rename replaced
    logBudget,        \* number of Log calls the application still makes
    callerLimit,      \* number of application calls that may be in flight at once
    noopLogs,         \* number of Log calls that found log == nil and returned
    runCalls,         \* number of Run calls made (Logger.AddHandler makes the one)
    closeCalls,       \* number of Close calls made (Logger.Close makes the one)
    closed,           \* number of Close calls that have returned
    lateRun,          \* Run was called after Close had returned
    faults,           \* number of system-call failures the environment has injected
    panicked,         \* the process died of a nil dereference
    logLevel,         \* Logger.logLevel
    handlers,         \* Logger.handlers: the registered handlers, in order
    std,              \* the StdHandler objects: std[h] = [name, off, log, lines]
    hRuns,            \* hRuns[h]: number of Run calls AddHandler has made on handler h
    addResult,        \* what the last AddHandler call returned: "nil" or "error"
    pending,          \* the handlers the Logger.log call in flight has still to visit
    closing,          \* Logger.Close: [state, rest] "no", "loop" over the handlers in rest, "done"
    loggerBudget,     \* number of log calls the application still makes through the Logger
    skipped           \* number of handlers Logger.log has passed over as off

vars == <<argCount, name, off, filePath, fileFd, log, fileCount, fileSize,
          nextSuffix, running, rotatingRun, rotatingInterval, fileLock,
          active, backups, threads, written, lost, evicted, logBudget,
          callerLimit, noopLogs, runCalls, closeCalls, closed, lateRun,
          faults, panicked, logLevel, handlers, std, hRuns, addResult,
          pending, closing, loggerBudget, skipped>>

handlerVars == <<name, off, filePath, fileFd, log, fileCount, fileSize,
                 nextSuffix, running, rotatingRun, rotatingInterval>>

loggerVars == <<logLevel, handlers, std, hRuns, addResult, pending, closing,
                loggerBudget, skipped>>

----------------------------------------------------------------------------
(* Bounds of the model *)

MaxLines == 2       \* Log calls the application makes
MaxCallers == 2     \* application calls in flight at the same time
MaxCount == 3       \* largest fileCount argument
MaxTime == 2        \* largest modification time of a backup found at construction
MaxFaults == 1      \* system-call failures injected
LineLen == 30       \* bytes one Printf appends

(* Program constants *)

KB == 1024
MB == 1048576
GB == 1073741824

DEBUG == 0
INFO == 1
WARNING == 2
ERROR == 3
FATAL == 4

CountArgs == -1 .. MaxCount
SizeArgs == {0, LineLen}
Slots == 0 .. MaxCount
ACTIVE == -1
ORPHAN == -2

----------------------------------------------------------------------------
(* The file system *)

Absent == [exists |-> FALSE, lines |-> <<>>, mtime |-> 0]

Size(f) == Len(f.lines) * LineLen

\* the ids of the lines in file f
Lines(f) == {f.lines[i] : i \in 1 .. Len(f.lines)}

\* the clock: every write happens later than everything before it
Now == MaxTime + 1 + written

\* os.Stat(path): fails on the empty path and on a missing file
StatOk(path, f) == path # "" /\ f.exists

----------------------------------------------------------------------------
(* The bag of threads *)

PCs == {"l_rlock", "l_printf",
        "g_guard", "g_isrun", "g_set", "g_enter", "g_rename", "g_open",
        "g_clear", "g_dead",
        "run_enter", "run_rename", "run_open", "run_dead",
        "close_enter", "close_rename", "close_open", "close_dead",
        "c_count", "c_size", "c_suffix", "c_teardown"}

CallPCs == {"l_rlock", "l_printf",
            "run_enter", "run_rename", "run_open", "run_dead",
            "close_enter", "close_rename", "close_open", "close_dead",
            "c_count", "c_size", "c_suffix", "c_teardown"}

RECURSIVE Count(_, _)
Count(bag, S) ==
    IF S = {} THEN 0
    ELSE LET p == CHOOSE x \in S : TRUE IN bag[p] + Count(bag, S \ {p})

At(pc) == threads[pc] > 0

Spawn(bag, pc) == [bag EXCEPT ![pc] = @ + 1]
Exit(bag, pc) == [bag EXCEPT ![pc] = @ - 1]
Goto(bag, from, to) == Spawn(Exit(bag, from), to)

InFlight == Count(threads, CallPCs)

----------------------------------------------------------------------------
(* Construction *)

\* SuffixScan without the break at an absent slot
RECURSIVE SuffixScanNoBreak(_, _, _, _, _)
SuffixScanNoBreak(n, count, dir, minModTime, suffix) ==
    IF n >= count THEN suffix
    ELSE IF dir[n].exists
         THEN IF minModTime = 0 \/ minModTime > dir[n].mtime
              THEN SuffixScanNoBreak(n + 1, count, dir, dir[n].mtime, n)
              ELSE SuffixScanNoBreak(n + 1, count, dir, minModTime, suffix)
         ELSE SuffixScanNoBreak(n + 1, count, dir, minModTime, n)

\* the loop of checkNextSuffix from slot n on: the oldest backup so far, or the
\* first absent slot
RECURSIVE SuffixScan(_, _, _, _, _)
SuffixScan(n, count, dir, minModTime, suffix) ==
    IF n >= count THEN suffix
    ELSE IF dir[n].exists
         THEN IF minModTime = 0 \/ minModTime > dir[n].mtime
              THEN SuffixScan(n + 1, count, dir, dir[n].mtime, n)
              ELSE SuffixScan(n + 1, count, dir, minModTime, suffix)
         ELSE n

checkNextSuffix(suffix, count, dir) ==
    IF suffix = 0 THEN 0 ELSE SuffixScan(1, count, dir, 0, suffix)

\* the debounce interval the constructor derives from the threshold
Interval(nSize) ==
    IF nSize < 10 * KB THEN 0
    ELSE IF nSize <= MB THEN 100
    ELSE IF nSize <= 100 * MB THEN 10000
    ELSE IF nSize <= GB THEN 50000
    ELSE 100000

\* the handler NewSizeRotatingFileHandler returns over directory dir
NewSizeRotatingFileHandler(count, size, dir) ==
    LET disabled == count < 0 \/ count = 1
        nSuffix == IF disabled THEN 0 ELSE 1
        nCount == IF disabled THEN 1 ELSE count
        nSize == IF size > 0 THEN size ELSE MB
    IN  [name |-> "SizeRotatingFileHandler",
         off |-> FALSE,
         filePath |-> "path",
         fileFd |-> [open |-> TRUE, at |-> ACTIVE],
         log |-> "logger",
         fileCount |-> nCount,
         fileSize |-> nSize,
         nextSuffix |-> checkNextSuffix(nSuffix, nCount, dir),
         running |-> FALSE,
         rotatingRun |-> FALSE,
         rotatingInterval |-> Interval(nSize)]

\* a backup left by an earlier run, last modified at time t
OldBackup(t) == [exists |-> TRUE, lines |-> <<0>>, mtime |-> t]

\* the directories an earlier run may have left: no path.0, and every other
\* slot absent or a backup last modified at some time up to MaxTime
InitDirs ==
    {d \in [Slots -> {Absent} \cup {OldBackup(t) : t \in 1 .. MaxTime}] :
        d[0] = Absent}

\* OpenFile with O_TRUNC in the place of O_APPEND
OpenFileTrunc(f, t) == [exists |-> TRUE, lines |-> <<>>, mtime |-> t]

\* os.OpenFile(path, O_CREATE|O_RDWR|O_APPEND): the file is created when missing
OpenFile(f, t) == IF f.exists THEN f ELSE [exists |-> TRUE, lines |-> <<>>, mtime |-> t]

EmptyDir == [n \in Slots |-> Absent]

\* the handler's fields are those of h
HandlerIs(h) ==
    /\ name = h.name
    /\ off = h.off
    /\ filePath = h.filePath
    /\ fileFd = h.fileFd
    /\ log = h.log
    /\ fileCount = h.fileCount
    /\ fileSize = h.fileSize
    /\ nextSuffix = h.nextSuffix
    /\ running = h.running
    /\ rotatingRun = h.rotatingRun
    /\ rotatingInterval = h.rotatingInterval

\* the StdHandler objects the application has constructed, and all its handlers
StdIds == {"std1", "std2"}
Handlers == {"srfh"} \cup StdIds

\* the handler NewStdHandler returns; lines counts what it has printed
NewStdHandler == [name |-> "StdHandler", off |-> FALSE, log |-> "logger", lines |-> 0]

\* NewLogger() has returned and nothing has been called on the Logger yet
NewLogger ==
    /\ logLevel = INFO
    /\ handlers = <<>>
    /\ std = [h \in StdIds |-> NewStdHandler]
    /\ hRuns = [h \in Handlers |-> 0]
    /\ addResult = "none"
    /\ pending = <<>>
    /\ closing = [state |-> "no", rest |-> <<>>]
    /\ skipped = 0

\* NewSizeRotatingFileHandler(name, path, count, size) has returned over
\* directory dir: NewFileHandler has created the active file, nothing has been
\* called yet
Constructed(count, size, dir) ==
    /\ argCount = count
    /\ HandlerIs(NewSizeRotatingFileHandler(count, size, dir))
    /\ backups = dir
    /\ active = OpenFile(Absent, MaxTime + 1)
    /\ fileLock = [readers |-> 0, writer |-> FALSE]
    /\ threads = [pc \in PCs |-> 0]
    /\ written = 0
    /\ lost = {}
    /\ evicted = {}
    /\ noopLogs = 0
    /\ runCalls = 0
    /\ closeCalls = 0
    /\ closed = 0
    /\ lateRun = FALSE
    /\ panicked = FALSE
    /\ NewLogger

\* a handler over an empty directory, used by up to MaxCallers threads
Init ==
    /\ \E count \in CountArgs, size \in SizeArgs : Constructed(count, size, EmptyDir)
    /\ logBudget = MaxLines
    /\ callerLimit = MaxCallers
    /\ faults = 0
    /\ loggerBudget = 0

----------------------------------------------------------------------------
(* sync.RWMutex *)

\* an RLock that does not wait for the writer
CanRLockAnyway(l) == TRUE

\* RLock returns once no writer holds the lock
CanRLock(l) == ~l.writer

\* Lock returns once nobody holds the lock
CanLock(l) == l.readers = 0 /\ ~l.writer

RLock(l) == [l EXCEPT !.readers = @ + 1]
RUnlock(l) == [l EXCEPT !.readers = @ - 1]
Lock(l) == [l EXCEPT !.writer = TRUE]
Unlock(l) == [l EXCEPT !.writer = FALSE]

----------------------------------------------------------------------------
(* SizeRotatingFileHandler.Log *)

\* file f after a write of line id at time t
WriteLine(f, id, t) == [f EXCEPT !.lines = Append(@, id), !.mtime = t]

\* if srfh.log != nil { ... }: a call on a closed handler returns at once
StartLog ==
    /\ ~panicked
    /\ UNCHANGED loggerVars
    /\ UNCHANGED <<evicted, lateRun>>
    /\ logBudget > 0
    /\ InFlight < callerLimit
    /\ logBudget' = logBudget - 1
    /\ UNCHANGED callerLimit
    /\ IF log = "nil"
       THEN noopLogs' = noopLogs + 1 /\ UNCHANGED threads
       ELSE threads' = Spawn(threads, "l_rlock") /\ UNCHANGED noopLogs
    /\ UNCHANGED <<argCount, handlerVars, fileLock, active, backups, written,
                   lost, runCalls, closeCalls, closed, faults>>
    /\ UNCHANGED panicked

\* srfh.fileLock.RLock()
LogRLock ==
    /\ ~panicked
    /\ UNCHANGED loggerVars
    /\ UNCHANGED <<evicted, lateRun>>
    /\ At("l_rlock")
    /\ CanRLock(fileLock)
    /\ fileLock' = RLock(fileLock)
    /\ threads' = Goto(threads, "l_rlock", "l_printf")
    /\ UNCHANGED <<argCount, handlerVars, active, backups, written, lost,
                   logBudget, callerLimit, noopLogs, runCalls, closeCalls, closed, faults,
                   panicked>>

\* srfh.log.Printf(...); srfh.fileLock.RUnlock(); go srfh.rotating()
\* Printf on a nil *log.Logger dereferences nil; a write to a closed descriptor
\* fails and the line is gone.
LogPrintf ==
    /\ ~panicked
    /\ UNCHANGED loggerVars
    /\ UNCHANGED <<evicted, lateRun>>
    /\ At("l_printf")
    /\ IF log = "nil"
       THEN /\ panicked' = TRUE
            /\ UNCHANGED <<active, backups, written, lost, fileLock, threads>>
       ELSE /\ written' = written + 1
            /\ IF fileFd.open /\ fileFd.at = ACTIVE
               THEN /\ active' = WriteLine(active, written', Now + 1)
                    /\ UNCHANGED <<backups, lost>>
               ELSE IF fileFd.open /\ fileFd.at \in Slots
               THEN /\ backups' = [backups EXCEPT
                                     ![fileFd.at] = WriteLine(@, written', Now + 1)]
                    /\ UNCHANGED <<active, lost>>
               ELSE /\ lost' = lost \cup {written'}
                    /\ UNCHANGED <<active, backups>>
            /\ fileLock' = RUnlock(fileLock)
            /\ threads' = Goto(threads, "l_printf", "g_guard")
            /\ UNCHANGED panicked
    /\ UNCHANGED <<argCount, handlerVars, logBudget, callerLimit, noopLogs, runCalls,
                   closeCalls, closed, faults>>

----------------------------------------------------------------------------
(* SizeRotatingFileHandler.rotating: the goroutine Log launches *)

\* if srfh.nextSuffix == 0 ... { return }
GoGuard ==
    /\ ~panicked
    /\ UNCHANGED loggerVars
    /\ UNCHANGED <<evicted, lateRun>>
    /\ At("g_guard")
    /\ threads' = IF nextSuffix = 0 THEN Exit(threads, "g_guard")
                  ELSE Goto(threads, "g_guard", "g_isrun")
    /\ UNCHANGED <<argCount, handlerVars, fileLock, active, backups, written,
                   lost, logBudget, callerLimit, noopLogs, runCalls, closeCalls, closed,
                   faults, panicked>>

\* ... || srfh.isRotatingRun() { return }
GoIsRun ==
    /\ ~panicked
    /\ UNCHANGED loggerVars
    /\ UNCHANGED <<evicted, lateRun>>
    /\ At("g_isrun")
    /\ threads' = IF rotatingRun THEN Exit(threads, "g_isrun")
                  ELSE Goto(threads, "g_isrun", "g_set")
    /\ UNCHANGED <<argCount, handlerVars, fileLock, active, backups, written,
                   lost, logBudget, callerLimit, noopLogs, runCalls, closeCalls, closed,
                   faults, panicked>>

\* srfh.setRotatingRun(true)
GoSet ==
    /\ ~panicked
    /\ UNCHANGED loggerVars
    /\ UNCHANGED <<evicted, lateRun>>
    /\ At("g_set")
    /\ rotatingRun' = TRUE
    /\ threads' = Goto(threads, "g_set", "g_enter")
    /\ UNCHANGED <<argCount, name, off, filePath, fileFd, log, fileCount,
                   fileSize, nextSuffix, running, rotatingInterval, fileLock,
                   active, backups, written, lost, logBudget, callerLimit, noopLogs,
                   runCalls, closeCalls, closed, faults, panicked>>

\* time.Sleep(rotatingInterval); srfh.setRotatingRun(false)
GoClear ==
    /\ ~panicked
    /\ UNCHANGED loggerVars
    /\ UNCHANGED <<evicted, lateRun>>
    /\ At("g_clear")
    /\ rotatingRun' = FALSE
    /\ threads' = Exit(threads, "g_clear")
    /\ UNCHANGED <<argCount, name, off, filePath, fileFd, log, fileCount,
                   fileSize, nextSuffix, running, rotatingInterval, fileLock,
                   active, backups, written, lost, logBudget, callerLimit, noopLogs,
                   runCalls, closeCalls, closed, faults, panicked>>

----------------------------------------------------------------------------
(* SizeRotatingFileHandler.rotateOnce, called by rotating (ctx "g"), by Run   *)
(* (ctx "run") and by Close (ctx "close")                                     *)

Ctx == {"g", "run", "close"}

PcEnter == [g |-> "g_enter", run |-> "run_enter", close |-> "close_enter"]
PcRename == [g |-> "g_rename", run |-> "run_rename", close |-> "close_rename"]
PcOpen == [g |-> "g_open", run |-> "run_open", close |-> "close_open"]
PcDead == [g |-> "g_dead", run |-> "run_dead", close |-> "close_dead"]

\* the thread at pc returns from rotateOnce to its caller: rotating goes on to
\* its sleep, Run returns, Close goes on to zero the fields
Return(bag, c, pc) ==
    IF c = "g" THEN Goto(bag, pc, "g_clear")
    ELSE IF c = "close" THEN Goto(bag, pc, "c_count")
    ELSE Exit(bag, pc)

\* a comparison that leaves a file of exactly the threshold alone
ShouldRotateStrict(size, threshold) == size > threshold

\* fileinfo.Size() >= srfh.fileSize
ShouldRotate(size, threshold) == size >= threshold

\* srfh.fileLock.Lock(); os.Stat(srfh.filePath); on an error srfh.Log(...), which
\* takes RLock on the lock this thread holds and never returns unless log is
\* nil; else the comparison and, when it says so, srfh.fileFd.Close()
RotateEnter(c) ==
    /\ ~panicked
    /\ UNCHANGED loggerVars
    /\ UNCHANGED <<evicted, lateRun>>
    /\ At(PcEnter[c])
    /\ CanLock(fileLock)
    /\ \E fail \in IF faults < MaxFaults /\ StatOk(filePath, active)
                   THEN BOOLEAN ELSE {FALSE} :
          /\ faults' = IF fail THEN faults + 1 ELSE faults
          /\ IF fail \/ ~StatOk(filePath, active)
             THEN IF log # "nil"
                  THEN /\ fileLock' = Lock(fileLock)
                       /\ threads' = Goto(threads, PcEnter[c], PcDead[c])
                       /\ UNCHANGED fileFd
                  ELSE /\ threads' = Return(threads, c, PcEnter[c])
                       /\ UNCHANGED <<fileLock, fileFd>>
             ELSE IF ShouldRotate(Size(active), fileSize)
                  THEN /\ fileLock' = Lock(fileLock)
                       /\ fileFd' = [fileFd EXCEPT !.open = FALSE]
                       /\ threads' = Goto(threads, PcEnter[c], PcRename[c])
                  ELSE /\ threads' = Return(threads, c, PcEnter[c])
                       /\ UNCHANGED <<fileLock, fileFd>>
    /\ UNCHANGED <<argCount, name, off, filePath, log, fileCount, fileSize,
                   nextSuffix, running, rotatingRun, rotatingInterval, active,
                   backups, written, lost, logBudget, callerLimit, noopLogs, runCalls,
                   closeCalls, closed, panicked>>

\* os.Rename(srfh.filePath, fmt.Sprintf("%s.%d", srfh.filePath, srfh.nextSuffix)):
\* the error is dropped; a descriptor keeps referring to the file it was opened on
RotateRename(c) ==
    /\ ~panicked
    /\ UNCHANGED loggerVars
    /\ UNCHANGED lateRun
    /\ At(PcRename[c])
    /\ \E fail \in IF faults < MaxFaults /\ active.exists
                   THEN BOOLEAN ELSE {FALSE} :
          /\ faults' = IF fail THEN faults + 1 ELSE faults
          /\ IF fail \/ ~active.exists
             THEN UNCHANGED <<active, backups, fileFd, evicted>>
             ELSE /\ backups' = [backups EXCEPT ![nextSuffix] = active]
                  /\ evicted' = evicted \cup Lines(backups[nextSuffix])
                  /\ active' = Absent
                  /\ fileFd' = [fileFd EXCEPT !.at =
                                  IF @ = ACTIVE THEN nextSuffix
                                  ELSE IF @ = nextSuffix THEN ORPHAN ELSE @]
    /\ threads' = Goto(threads, PcRename[c], PcOpen[c])
    /\ UNCHANGED <<argCount, name, off, filePath, log, fileCount, fileSize,
                   nextSuffix, running, rotatingRun, rotatingInterval, fileLock,
                   written, lost, logBudget, callerLimit, noopLogs, runCalls, closeCalls,
                   closed, panicked>>

\* the wrap-around of nextSuffix at the end of a rotation
AdvanceSuffix(suffix, count) == IF suffix >= count - 1 THEN 1 ELSE suffix + 1

\* srfh.fileFd, _ = os.OpenFile(...); srfh.log = log.New(srfh.fileFd, "", flag);
\* nextSuffix advances; the deferred Unlock
RotateOpen(c) ==
    /\ ~panicked
    /\ UNCHANGED loggerVars
    /\ UNCHANGED <<evicted, lateRun>>
    /\ At(PcOpen[c])
    /\ active' = OpenFile(active, Now)
    /\ fileFd' = [open |-> TRUE, at |-> ACTIVE]
    /\ log' = "logger"
    /\ nextSuffix' = AdvanceSuffix(nextSuffix, fileCount)
    /\ fileLock' = Unlock(fileLock)
    /\ threads' = Return(threads, c, PcOpen[c])
    /\ UNCHANGED <<argCount, name, off, filePath, fileCount, fileSize, running,
                   rotatingRun, rotatingInterval, backups, written, lost,
                   logBudget, callerLimit, noopLogs, runCalls, closeCalls, closed, faults,
                   panicked>>

----------------------------------------------------------------------------
(* SizeRotatingFileHandler.Run *)

\* srfh.running = true; then rotateOnce
StartRun ==
    /\ ~panicked
    /\ UNCHANGED loggerVars
    /\ lateRun' = (closed > 0)
    /\ UNCHANGED evicted
    /\ runCalls = 0
    /\ InFlight < callerLimit
    /\ runCalls' = runCalls + 1
    /\ running' = TRUE
    /\ threads' = Spawn(threads, "run_enter")
    /\ UNCHANGED <<argCount, name, off, filePath, fileFd, log, fileCount,
                   fileSize, nextSuffix, rotatingRun, rotatingInterval,
                   fileLock, active, backups, written, lost, logBudget, callerLimit,
                   noopLogs, closeCalls, closed, faults, panicked>>

----------------------------------------------------------------------------
(* SizeRotatingFileHandler.Close *)

\* the call starts with rotateOnce
StartClose ==
    /\ ~panicked
    /\ UNCHANGED loggerVars
    /\ UNCHANGED <<evicted, lateRun>>
    /\ closeCalls = 0
    /\ InFlight < callerLimit
    /\ closeCalls' = closeCalls + 1
    /\ threads' = Spawn(threads, "close_enter")
    /\ UNCHANGED <<argCount, handlerVars, fileLock, active, backups, written,
                   lost, logBudget, callerLimit, noopLogs, runCalls, closed, faults,
                   panicked>>

\* srfh.fileCount = 0
CloseCount ==
    /\ ~panicked
    /\ UNCHANGED loggerVars
    /\ UNCHANGED <<evicted, lateRun>>
    /\ At("c_count")
    /\ fileCount' = 0
    /\ threads' = Goto(threads, "c_count", "c_size")
    /\ UNCHANGED <<argCount, name, off, filePath, fileFd, log, fileSize,
                   nextSuffix, running, rotatingRun, rotatingInterval,
                   fileLock, active, backups, written, lost, logBudget, callerLimit,
                   noopLogs, runCalls, closeCalls, closed, faults, panicked>>

\* srfh.fileSize = 0
CloseSize ==
    /\ ~panicked
    /\ UNCHANGED loggerVars
    /\ UNCHANGED <<evicted, lateRun>>
    /\ At("c_size")
    /\ fileSize' = 0
    /\ threads' = Goto(threads, "c_size", "c_suffix")
    /\ UNCHANGED <<argCount, name, off, filePath, fileFd, log, fileCount,
                   nextSuffix, running, rotatingRun, rotatingInterval,
                   fileLock, active, backups, written, lost, logBudget, callerLimit,
                   noopLogs, runCalls, closeCalls, closed, faults, panicked>>

\* srfh.nextSuffix = 0
CloseSuffix ==
    /\ ~panicked
    /\ UNCHANGED loggerVars
    /\ UNCHANGED <<evicted, lateRun>>
    /\ At("c_suffix")
    /\ nextSuffix' = 0
    /\ threads' = Goto(threads, "c_suffix", "c_teardown")
    /\ UNCHANGED <<argCount, name, off, filePath, fileFd, log, fileCount,
                   fileSize, running, rotatingRun, rotatingInterval, fileLock,
                   active, backups, written, lost, logBudget, callerLimit, noopLogs,
                   runCalls, closeCalls, closed, faults, panicked>>

\* FileHandler.Close without fh.log = nil
FileHandlerCloseKeepsLog ==
    [name |-> "", off |-> TRUE, log |-> "logger", filePath |-> ""]

\* what FileHandler.Close leaves in name, off, log and filePath
FileHandlerClose == [name |-> "", off |-> TRUE, log |-> "nil", filePath |-> ""]

\* srfh.fileLock.Lock(); FileHandler.Close(): name, off, log and filePath are
\* zeroed and the descriptor is closed; the deferred Unlock; Close returns
CloseTeardown ==
    /\ ~panicked
    /\ UNCHANGED loggerVars
    /\ UNCHANGED <<evicted, lateRun>>
    /\ At("c_teardown")
    /\ CanLock(fileLock)
    /\ name' = FileHandlerClose.name
    /\ off' = FileHandlerClose.off
    /\ log' = FileHandlerClose.log
    /\ filePath' = FileHandlerClose.filePath
    /\ fileFd' = [fileFd EXCEPT !.open = FALSE]
    /\ closed' = closed + 1
    /\ threads' = Exit(threads, "c_teardown")
    /\ UNCHANGED <<argCount, fileCount, fileSize, nextSuffix, running,
                   rotatingRun, rotatingInterval, fileLock, active, backups,
                   written, lost, logBudget, callerLimit, noopLogs, runCalls, closeCalls,
                   faults, panicked>>

----------------------------------------------------------------------------
(* Logger: AddHandler, SetLevel, log (behind Debug, Info, Warning and Error),  *)
(* Close; and Off on the handlers.  The Logger has no lock: the application   *)
(* calls it, and Off, from one thread, one call after the other; the           *)
(* goroutines of the file handler run beside that thread.                      *)

\* the application's thread is not inside a call
Idle == InFlight = 0 /\ pending = <<>> /\ closing.state # "loop"

\* handler.Name()
Name(h) == IF h = "srfh" THEN name ELSE std[h].name

\* an IsOff that never says off
IsOffNever(h) == FALSE

\* handler.IsOff()
IsOff(h) == IF h = "srfh" THEN off ELSE std[h].off

\* a loop of AddHandler that finds no name taken
NameTakenNever(h) == FALSE

\* the loop of AddHandler: a registered handler has the name of h
NameTaken(h) == \E i \in 1 .. Len(handlers) : Name(handlers[i]) = Name(h)

\* Logger.AddHandler(h): an error when the name is taken, else append and
\* h.Run(); Run of a StdHandler returns at once, Run of the file handler sets
\* running and goes into rotateOnce
AddHandler(h) ==
    /\ ~panicked
    /\ Idle
    /\ IF NameTaken(h)
       THEN /\ addResult' = "error"
            /\ UNCHANGED <<handlers, hRuns, running, threads, runCalls, lateRun>>
       ELSE /\ handlers' = Append(handlers, h)
            /\ hRuns' = [hRuns EXCEPT ![h] = @ + 1]
            /\ addResult' = "nil"
            /\ IF h = "srfh"
               THEN /\ runCalls = 0
                    /\ runCalls' = runCalls + 1
                    /\ lateRun' = (closed > 0)
                    /\ running' = TRUE
                    /\ threads' = Spawn(threads, "run_enter")
               ELSE UNCHANGED <<running, threads, runCalls, lateRun>>
    /\ UNCHANGED <<argCount, name, off, filePath, fileFd, log, fileCount,
                   fileSize, nextSuffix, rotatingRun, rotatingInterval,
                   fileLock, active, backups, written, lost, evicted,
                   logBudget, callerLimit, noopLogs, closeCalls, closed,
                   faults, panicked, logLevel, std, pending, closing,
                   loggerBudget, skipped>>

\* the levels the application sets
Levels == {DEBUG, FATAL}

\* Logger.SetLevel(level)
SetLevel(level) ==
    /\ ~panicked
    /\ Idle
    /\ logLevel' = IF logLevel < FATAL THEN level ELSE logLevel
    /\ UNCHANGED <<argCount, handlerVars, fileLock, active, backups, threads,
                   written, lost, evicted, logBudget, callerLimit, noopLogs,
                   runCalls, closeCalls, closed, lateRun, faults, panicked,
                   handlers, std, hRuns, addResult, pending, closing,
                   loggerBudget, skipped>>

\* FileHandler.Off / StdHandler.Off
Off(h) ==
    /\ ~panicked
    /\ Idle
    /\ IF h = "srfh"
       THEN off' = TRUE /\ UNCHANGED std
       ELSE std' = [std EXCEPT ![h].off = TRUE] /\ UNCHANGED off
    /\ UNCHANGED <<argCount, name, filePath, fileFd, log, fileCount, fileSize,
                   nextSuffix, running, rotatingRun, rotatingInterval,
                   fileLock, active, backups, threads, written, lost, evicted,
                   logBudget, callerLimit, noopLogs, runCalls, closeCalls,
                   closed, lateRun, faults, panicked, logLevel, handlers,
                   hRuns, addResult, pending, closing, loggerBudget, skipped>>

\* the levels of Debug, Info, Warning and Error (Fatal ends the process)
CallLevels == {DEBUG, ERROR}

\* Logger.log(level, ...): if l.logLevel <= level, the loop over the handlers
\* registered at the time of the call (the receiver is a copy of the Logger)
LoggerLog(level) ==
    /\ ~panicked
    /\ loggerBudget > 0
    /\ Idle
    /\ loggerBudget' = loggerBudget - 1
    /\ pending' = IF logLevel <= level THEN handlers ELSE <<>>
    /\ UNCHANGED <<argCount, handlerVars, fileLock, active, backups, threads,
                   written, lost, evicted, logBudget, callerLimit, noopLogs,
                   runCalls, closeCalls, closed, lateRun, faults, panicked,
                   logLevel, handlers, std, hRuns, addResult, closing,
                   skipped>>

\* one turn of the loop of Logger.log, once the Log call of the turn before has
\* returned: if !handler.IsOff() { handler.Log(...) }; StdHandler.Log prints if
\* its log is not nil, the file handler's Log starts as in StartLog
Dispatch ==
    /\ ~panicked
    /\ pending # <<>>
    /\ threads["l_rlock"] = 0 /\ threads["l_printf"] = 0
    /\ pending' = Tail(pending)
    /\ LET h == Head(pending) IN
       IF IsOff(h)
       THEN /\ skipped' = skipped + 1
            /\ UNCHANGED <<std, threads, noopLogs>>
       ELSE /\ UNCHANGED skipped
            /\ IF h = "srfh"
               THEN /\ IF log = "nil"
                       THEN noopLogs' = noopLogs + 1 /\ UNCHANGED threads
                       ELSE threads' = Spawn(threads, "l_rlock")
                               /\ UNCHANGED noopLogs
                    /\ UNCHANGED std
               ELSE /\ std' = IF std[h].log = "nil" THEN std
                              ELSE [std EXCEPT ![h].lines = @ + 1]
                    /\ UNCHANGED <<threads, noopLogs>>
    /\ UNCHANGED <<argCount, handlerVars, fileLock, active, backups, written,
                   lost, evicted, logBudget, callerLimit, runCalls,
                   closeCalls, closed, lateRun, faults, panicked, logLevel,
                   handlers, hRuns, addResult, closing, loggerBudget>>

\* Logger.Close(): the loop starts over the handlers registered now
LoggerClose ==
    /\ ~panicked
    /\ closing.state = "no"
    /\ Idle
    /\ closing' = [state |-> "loop", rest |-> handlers]
    /\ UNCHANGED <<argCount, handlerVars, fileLock, active, backups, threads,
                   written, lost, evicted, logBudget, callerLimit, noopLogs,
                   runCalls, closeCalls, closed, lateRun, faults, panicked,
                   logLevel, handlers, std, hRuns, addResult, pending,
                   loggerBudget, skipped>>

\* what StdHandler.Close leaves of handler record r
StdHandlerClose(r) == [r EXCEPT !.name = "", !.off = TRUE, !.log = "nil"]

\* one turn of the loop of Logger.Close, once the Close call of the turn before
\* has returned: handler.Close(); the file handler's Close starts as in StartClose
LoggerCloseNext ==
    /\ ~panicked
    /\ closing.state = "loop" /\ closing.rest # <<>>
    /\ closeCalls = closed
    /\ closing' = [closing EXCEPT !.rest = Tail(@)]
    /\ LET h == Head(closing.rest) IN
       IF h = "srfh"
       THEN /\ closeCalls = 0
            /\ closeCalls' = closeCalls + 1
            /\ threads' = Spawn(threads, "close_enter")
            /\ UNCHANGED std
       ELSE /\ std' = [std EXCEPT ![h] = StdHandlerClose(@)]
            /\ UNCHANGED <<closeCalls, threads>>
    /\ UNCHANGED <<argCount, handlerVars, fileLock, active, backups, written,
                   lost, evicted, logBudget, callerLimit, noopLogs, runCalls,
                   closed, lateRun, faults, panicked, logLevel, handlers,
                   hRuns, addResult, pending, loggerBudget, skipped>>

\* the end of Logger.Close: l.handlers = nil
LoggerCloseReturn ==
    /\ ~panicked
    /\ closing.state = "loop" /\ closing.rest = <<>>
    /\ closeCalls = closed
    /\ handlers' = <<>>
    /\ closing' = [closing EXCEPT !.state = "done"]
    /\ UNCHANGED <<argCount, handlerVars, fileLock, active, backups, threads,
                   written, lost, evicted, logBudget, callerLimit, noopLogs,
                   runCalls, closeCalls, closed, lateRun, faults, panicked,
                   logLevel, std, hRuns, addResult, pending, loggerBudget,
                   skipped>>

----------------------------------------------------------------------------

Next ==
    \/ StartLog
    \/ LogRLock
    \/ LogPrintf
    \/ GoGuard
    \/ GoIsRun
    \/ GoSet
    \/ GoClear
    \/ \E c \in Ctx : RotateEnter(c)
    \/ \E c \in Ctx : RotateRename(c)
    \/ \E c \in Ctx : RotateOpen(c)
    \/ StartRun
    \/ StartClose
    \/ CloseCount
    \/ CloseSize
    \/ CloseSuffix
    \/ CloseTeardown

Spec == Init /\ [][Next]_vars

----------------------------------------------------------------------------
(* The scenario of the specification: threshold 100, backup count 3, an empty *)
(* directory, one caller writing 5 lines through Log, no failing system call  *)

InitScenario ==
    /\ Constructed(3, 100, EmptyDir)
    /\ logBudget = 5
    /\ callerLimit = 1
    /\ faults = MaxFaults
    /\ loggerBudget = 0

NextScenario ==
    \/ StartLog
    \/ LogRLock
    \/ LogPrintf
    \/ GoGuard
    \/ GoIsRun
    \/ GoSet
    \/ GoClear
    \/ RotateEnter("g")
    \/ RotateRename("g")
    \/ RotateOpen("g")

SpecScenario == InitScenario /\ [][NextScenario]_vars

\* the scenario under the scheduling of the Go runtime: a goroutine that can
\* take its next step eventually takes it; the application need not call Log
\* again
FairScenario ==
    /\ WF_vars(LogRLock)
    /\ WF_vars(LogPrintf)
    /\ WF_vars(GoGuard)
    /\ WF_vars(GoIsRun)
    /\ WF_vars(GoSet)
    /\ WF_vars(GoClear)
    /\ WF_vars(RotateEnter("g"))
    /\ WF_vars(RotateRename("g"))
    /\ WF_vars(RotateOpen("g"))

SpecFair == InitScenario /\ [][NextScenario]_vars /\ FairScenario

----------------------------------------------------------------------------
(* A restart: a handler with MaxCount slots constructed over what an earlier  *)
(* run left, no failing system call                                           *)

InitRestart ==
    /\ \E dir \in InitDirs : Constructed(MaxCount + 1, LineLen, dir)
    /\ logBudget = 2
    /\ callerLimit = MaxCallers
    /\ faults = MaxFaults
    /\ loggerBudget = 0

SpecRestart == InitRestart /\ [][Next]_vars

----------------------------------------------------------------------------
(* The handlers behind a Logger: a file handler with backup count 3 and two   *)
(* StdHandlers, registered, logged to, switched off and closed through the    *)
(* Logger; the application also calls the file handler's Log itself           *)

InitLogger ==
    /\ Constructed(3, LineLen, EmptyDir)
    /\ logBudget = 1
    /\ loggerBudget = 1
    /\ callerLimit = 1
    /\ faults = MaxFaults

NextLogger ==
    \/ \E h \in Handlers : AddHandler(h)
    \/ \E level \in Levels : SetLevel(level)
    \/ \E h \in Handlers : Off(h)
    \/ \E level \in CallLevels : LoggerLog(level)
    \/ Dispatch
    \/ LoggerClose
    \/ LoggerCloseNext
    \/ LoggerCloseReturn
    \/ Idle /\ StartLog
    \/ LogRLock
    \/ LogPrintf
    \/ GoGuard
    \/ GoIsRun
    \/ GoSet
    \/ GoClear
    \/ \E c \in Ctx : RotateEnter(c)
    \/ \E c \in Ctx : RotateRename(c)
    \/ \E c \in Ctx : RotateOpen(c)
    \/ CloseCount
    \/ CloseSize
    \/ CloseSuffix
    \/ CloseTeardown

SpecLogger == InitLogger /\ [][NextLogger]_vars

----------------------------------------------------------------------------
(* Construction alone: NewSizeRotatingFileHandler applied to every directory  *)

\* the zero value of the handler struct
ZeroHandler ==
    [name |-> "", off |-> FALSE, filePath |-> "",
     fileFd |-> [open |-> FALSE, at |-> ORPHAN], log |-> "nil",
     fileCount |-> 0, fileSize |-> 0, nextSuffix |-> 0, running |-> FALSE,
     rotatingRun |-> FALSE, rotatingInterval |-> 0]

InitCtor ==
    /\ argCount = 0
    /\ HandlerIs(ZeroHandler)
    /\ backups \in InitDirs
    /\ active = Absent
    /\ fileLock = [readers |-> 0, writer |-> FALSE]
    /\ threads = [pc \in PCs |-> 0]
    /\ written = 0
    /\ lost = {}
    /\ evicted = {}
    /\ noopLogs = 0
    /\ runCalls = 0
    /\ closeCalls = 0
    /\ closed = 0
    /\ lateRun = FALSE
    /\ panicked = FALSE
    /\ logBudget = MaxLines
    /\ callerLimit = MaxCallers
    /\ faults = 0
    /\ NewLogger
    /\ loggerBudget = 0

\* NewSizeRotatingFileHandler(name, "path", count, size): NewFileHandler opens
\* (creates) the active file, then the fields are set and checkNextSuffix runs
Construct ==
    /\ name = ""
    /\ \E count \in CountArgs, size \in SizeArgs :
          LET h == NewSizeRotatingFileHandler(count, size, backups) IN
          /\ argCount' = count
          /\ name' = h.name
          /\ off' = h.off
          /\ filePath' = h.filePath
          /\ fileFd' = h.fileFd
          /\ log' = h.log
          /\ fileCount' = h.fileCount
          /\ fileSize' = h.fileSize
          /\ nextSuffix' = h.nextSuffix
          /\ running' = h.running
          /\ rotatingRun' = h.rotatingRun
          /\ rotatingInterval' = h.rotatingInterval
    /\ active' = OpenFile(active, MaxTime + 1)
    /\ UNCHANGED <<backups, fileLock, threads, written, lost, evicted,
                   logBudget, callerLimit, noopLogs, runCalls, closeCalls,
                   closed, lateRun, faults, panicked, loggerVars>>

SpecCtor == InitCtor /\ [][Construct]_vars

----------------------------------------------------------------------------
(* Properties *)

MidRotation(c) == At(PcRename[c]) \/ At(PcOpen[c])

NoBackups == \A n \in Slots : ~backups[n].exists

\* C1: a handler constructed with backup count <= 1 never rotates: there is
\* never a backup file and no thread is ever between the rename and the reopen.
C1_DisabledNeverRotates ==
    argCount <= 1 => NoBackups /\ \A c \in Ctx : ~MidRotation(c)

\* no thread is left
Quiescent == \A pc \in PCs : threads[pc] = 0

\* C2: in the scenario, once the 5 lines are written and every goroutine has
\* finished, exactly one rotation has happened, after the 4th line: path.1
\* holds lines 1..4, the active file holds line 5, there is no other backup.
C2_ScenarioRotatesAfterFourthLine ==
    (written = 5 /\ logBudget = 0 /\ Quiescent) =>
        /\ backups[1].exists /\ backups[1].lines = <<1, 2, 3, 4>>
        /\ active.exists /\ active.lines = <<5>>
        /\ \A n \in Slots \ {1} : ~backups[n].exists

\* the lines of the backups in S, oldest backup first
RECURSIVE ByAge(_)
ByAge(S) ==
    IF S = {} THEN <<>>
    ELSE LET n == CHOOSE x \in S : \A m \in S : backups[x].mtime <= backups[m].mtime
         IN  backups[n].lines \o ByAge(S \ {n})

\* the backups in rotation order followed by the active file, without what
\* earlier runs left
OnDisk ==
    SelectSeq(ByAge({n \in Slots : backups[n].exists /\ backups[n].lines # <<>>})
                \o active.lines,
              LAMBDA id : id > 0)

\* the ids in S in write order
RECURSIVE Ascending(_)
Ascending(S) ==
    IF S = {} THEN <<>>
    ELSE LET m == CHOOSE x \in S : \A y \in S : x <= y
         IN  <<m>> \o Ascending(S \ {m})

C5_BackupsWithinSlots ==
    \A n \in Slots : backups[n].exists => 1 <= n /\ n <= argCount - 1

\* nextSuffix is an unused slot of [1, fileCount) if there is one, else the
\* slot of the backup with the oldest modification time
SuffixIsOldest ==
    LET range == 1 .. (fileCount - 1)
        unused == {n \in range : ~backups[n].exists}
    IN  IF unused # {} THEN nextSuffix \in unused
        ELSE range # {} =>
                /\ nextSuffix \in range
                /\ \A n \in range : backups[nextSuffix].mtime <= backups[n].mtime

\* C6: with rotation enabled, at construction and after every rotation,
\* nextSuffix designates an unused slot if there is one and otherwise the
\* oldest backup, whatever backups the directory held at construction.
C6_NextSuffixEvictsOldest ==
    (nextSuffix # 0 /\ closeCalls = 0 /\ \A c \in Ctx : ~MidRotation(c))
        => SuffixIsOldest

C8_FailedStatReturns == \A c \in Ctx : ~At(PcDead[c])

\* C9: once Close has returned nothing is written, renamed, opened or closed;
\* a further Log call returns at once without a crash and without launching a
\* goroutine; a further Run call never gets past the failing stat.
C9_ClosedIsNoop ==
    [][closed > 0 =>
          /\ UNCHANGED <<active, backups, fileFd, log, written, lost, evicted>>
          /\ logBudget' # logBudget => threads' = threads /\ ~panicked'
          /\ (\A c \in Ctx : ~MidRotation(c)') /\ ~At("run_dead")'
          /\ runCalls' # runCalls => ~panicked'
      ]_vars

\* C9's case: after Close returned, Log was called and Run was called and has
\* returned
C9_Witness ==
    closed > 0 /\ noopLogs > 0 /\ lateRun /\ ~At("run_enter") /\ ~panicked

\* Close is past its own size check: it is zeroing the fields, tearing the
\* handler down, or has returned
ClosePastCheck ==
    At("c_count") \/ At("c_size") \/ At("c_suffix") \/ At("c_teardown") \/ closed > 0

\* C10: once Close is past its own size check no rotation goroutine closes,
\* renames or reopens the file.
C10_NoRotationDuringTeardown == ClosePastCheck => ~MidRotation("g")

\* the registered handlers have pairwise distinct names
DistinctNames ==
    \A i, j \in 1 .. Len(handlers) :
        i # j => Name(handlers[i]) # Name(handlers[j])

\* every registered handler has had Run called once, by AddHandler
RunOnce ==
    /\ \A i \in 1 .. Len(handlers) : hRuns[handlers[i]] = 1
    /\ runCalls = hRuns["srfh"]

\* C11: until Logger.Close is called the registered handlers have pairwise
\* distinct names and each has had Run called exactly once; a step that changes
\* the handler list appends one handler whose name no registered handler had,
\* returns nil and calls Run on that handler once; a call that returns an error
\* found handlers registered and changes neither the list nor any Run count;
\* Run is called on no handler without it being appended.
C11_AddHandlerDistinctNames ==
    /\ [](closing.state = "no" => DistinctNames /\ RunOnce)
    /\ [][closing.state = "no" =>
            /\ handlers' # handlers =>
                  \E h \in Handlers :
                     /\ \A i \in 1 .. Len(handlers) : Name(handlers[i]) # Name(h)
                     /\ handlers' = Append(handlers, h)
                     /\ hRuns' = [hRuns EXCEPT ![h] = @ + 1]
                     /\ addResult' = "nil"
            /\ (addResult' = "error" /\ addResult # "error") =>
                  /\ UNCHANGED <<handlers, hRuns, runCalls, running>>
                  /\ handlers # <<>>
            /\ (hRuns' # hRuns \/ runCalls' # runCalls) => handlers' # handlers
        ]_vars

\* C11's case: with the file handler and one StdHandler registered, AddHandler
\* of the other StdHandler has returned an error
C11_Witness ==
    /\ closing.state = "no" /\ addResult = "error"
    /\ Len(handlers) = 2 /\ runCalls = 1
    /\ \E h \in StdIds : hRuns[h] = 0

\* C12: a handler that is off stays off; while a handler is off nothing but a
\* call of its own Log starts a write to it: no step of the Logger makes a
\* StdHandler that is off print, or starts a Log of the file handler while it
\* is off; a call of the file handler's own Log starts a write whether the
\* handler is off or not.
C12_OffSkippedByLogger ==
    [][/\ off =>
             /\ off'
             /\ logBudget' = logBudget =>
                   /\ threads'["l_rlock"] <= threads["l_rlock"]
                   /\ noopLogs' = noopLogs
       /\ \A h \in StdIds :
             std[h].off => std'[h].off /\ std'[h].lines = std[h].lines
       /\ (logBudget' < logBudget /\ log # "nil") =>
             threads'["l_rlock"] = threads["l_rlock"] + 1
      ]_vars

\* C12's case: Off was called on the registered file handler alone, a log call
\* through the Logger has passed over it, and a line was written to it
C12_Witness ==
    /\ off /\ closeCalls = 0 /\ closing.state = "no"
    /\ \A h \in StdIds : ~std[h].off
    /\ \E i \in 1 .. Len(handlers) : handlers[i] = "srfh"
    /\ skipped > 0 /\ loggerBudget = 0
    /\ At("l_printf")

\* the positions of rotating between setRotatingRun(true) and
\* setRotatingRun(false)
PastGuard == {"g_enter", "g_rename", "g_open", "g_clear", "g_dead"}

\* C13: at most one rotating goroutine is between setRotatingRun(true) and
\* setRotatingRun(false) in any reachable state.
C13_OneGoroutinePastGuard == Count(threads, PastGuard) <= 1

\* C14: before Run is called (and Close not either) no goroutine launched by
\* Log rotates the file: none is between the rename and the reopen and there is
\* no backup file.
C14_NoRotationBeforeRun ==
    (runCalls = 0 /\ closeCalls = 0) => ~MidRotation("g") /\ NoBackups

\* a rotation is past a rename that failed: the thread is before the reopen and
\* the file is still at filePath
RenameFailed == active.exists /\ \E c \in Ctx : At(PcOpen[c])

\* C15: when the rename of a rotation has failed (Close not called), the
\* descriptor is open on the active file and the step that ends the rotation
\* leaves nextSuffix unchanged.
C15_RenameFailureKeepsDescriptor ==
    [][(RenameFailed /\ closeCalls = 0) =>
          /\ fileFd.open /\ fileFd.at = ACTIVE
          /\ nextSuffix' = nextSuffix
      ]_vars

\* C16: from construction until Close is called, 0 <= nextSuffix < fileCount,
\* and nextSuffix = 0 exactly when the handler was constructed with a backup
\* count that disables rotation (<= 1).
C16_SuffixWithinCount ==
    closeCalls = 0 =>
        /\ 0 <= nextSuffix /\ nextSuffix < fileCount
        /\ nextSuffix = 0 <=> argCount <= 1

\* C17: a size check whose stat succeeds starts a rotation (closes the
\* descriptor and goes on to the rename) if the active file's size is >= the
\* threshold, and otherwise leaves the descriptor, the logger, nextSuffix, the
\* active file, the backups and the lock as they were; no rotation starts
\* without a size check that found the size >= the threshold.
C17_RotatesIffAtThreshold ==
    [][\A c \in Ctx :
          /\ (/\ threads'[PcEnter[c]] < threads[PcEnter[c]]
              /\ StatOk(filePath, active) /\ faults' = faults) =>
                IF Size(active) >= fileSize
                THEN /\ threads'[PcRename[c]] = threads[PcRename[c]] + 1
                     /\ ~fileFd'.open
                ELSE /\ UNCHANGED <<fileFd, log, nextSuffix, active, backups,
                                    fileLock>>
                     /\ threads'[PcRename[c]] = threads[PcRename[c]]
          /\ threads'[PcRename[c]] > threads[PcRename[c]] =>
                /\ threads'[PcEnter[c]] < threads[PcEnter[c]]
                /\ Size(active) >= fileSize
      ]_vars

\* C17's case: Run's size check found the empty file below the threshold and
\* changed nothing; a goroutine's check then finds the file at exactly the
\* threshold and has started the rotation
C17_Witness ==
    /\ runCalls = 1 /\ Count(threads, {"run_enter", "run_rename", "run_open", "run_dead"}) = 0
    /\ closeCalls = 0 /\ faults = 0 /\ NoBackups
    /\ At("g_rename") /\ fileSize = LineLen /\ Size(active) = fileSize

\* C18: in the scenario (rotation enabled), whenever the active file is at or
\* over the threshold a rotation eventually leaves a new active file below it,
\* whether or not Log is called again.
C18_OverThresholdEventuallyRotates ==
    (Size(active) >= fileSize) ~> (Size(active) < fileSize)

\* C19: once Close has returned the handler's state is zeroed: fileCount,
\* fileSize and nextSuffix are 0, the logger is nil, name and filePath are
\* empty and off is true.
C19_ZeroedAfterClose ==
    closed > 0 =>
        /\ fileCount = 0 /\ fileSize = 0 /\ nextSuffix = 0
        /\ log = "nil" /\ name = "" /\ filePath = "" /\ off

TypeOK ==
    /\ fileLock.readers >= 0
    /\ \A pc \in PCs : threads[pc] >= 0
    /\ nextSuffix \in Slots

====
